---- MODULE Spec2Model ----
(***************************************************************************)
(* run_scan of tradingagents/agents/scout.py as a state machine.           *)
(*                                                                         *)
(* One behaviour is one call of run_scan(verbose).  The files it reads     *)
(* (data/sp500_constituents.csv, config/sectors.txt), the frames that      *)
(* yf.download returns and the outcome of console.print are inputs, drawn  *)
(* from small sets.  Prices are integers and the rolling mean is kept as   *)
(* an exact fraction (sum, count), so `last_price > sma_200` is decided    *)
(* exactly; floating-point rounding is outside the model.                  *)
(*                                                                         *)
(* Spec is the call with a console whose print returns; SpecFaultyConsole  *)
(* lets any console.print call raise.                                      *)
(***************************************************************************)
EXTENDS Integers, Sequences, FiniteSets

VARIABLES
    pc,               \* position in run_scan
    verbose,          \* the argument of run_scan
    csv_status,       \* line 28: what pd.read_csv did ("unread" before it)
    constituents_df,  \* line 28: the table read from the constituents file
    sector_lines,     \* lines 32-34: the sectors file (exists, its lines)
    stock_pool,       \* lines 22, 40, 43
    idx,              \* 1-based position of `ticker` in stock_pool (0 before the loop)
    stock_data,       \* line 64: the frame the download for `ticker` returned
    bullish_stocks,   \* lines 53, 79
    exc,              \* the exception the per-ticker handler (line 83) holds
    raised,           \* the exception that left run_scan ("none" when none did)
    retval,           \* the returned list (meaningful when pc = "returned")
    exit_line,        \* the return statement taken: 47, 51 or 90 (0: none yet)
    fetch_log,        \* history: positions for which yf.download was invoked
    skipped,          \* history: positions whose download raised or returned an
                      \*          empty frame
    qualified,        \* history: tickers whose download returned a frame that
                      \*          has closes and ends above its rolling mean
    picked            \* history: positions whose ticker was appended at line 79

vars == <<pc, verbose, csv_status, constituents_df, sector_lines, stock_pool, idx,
          stock_data, bullish_stocks, exc, raised, retval, exit_line, fetch_log,
          skipped, qualified, picked>>

-----------------------------------------------------------------------------
(* Bounds of the model *)

MaxPool == 3
MaxLines == 2
ShortLen == 5

(* rolling(window=200) *)
Window == 200

BoundedSeq(S, n) == UNION {[1..k -> S] : k \in 0..n}

RECURSIVE SumRange(_, _, _)
SumRange(s, lo, hi) ==
    IF lo > hi THEN 0
    ELSE IF lo = hi THEN s[lo]
    ELSE LET mid == (lo + hi) \div 2
         IN  SumRange(s, lo, mid) + SumRange(s, mid + 1, hi)

-----------------------------------------------------------------------------
(* Text: a string is a sequence of characters *)

Whitespace == {" ", "\n", "\t"}

RECURSIVE LStrip(_)
LStrip(s) == IF s # <<>> /\ Head(s) \in Whitespace THEN LStrip(Tail(s)) ELSE s

RECURSIVE RStrip(_)
RStrip(s) ==
    IF s # <<>> /\ s[Len(s)] \in Whitespace THEN RStrip(SubSeq(s, 1, Len(s) - 1)) ELSE s

(* str.strip() *)
Strip(s) == RStrip(LStrip(s))

(* line.startswith('#'): tested on the line as read, not on the stripped line *)
StartsWithHash(s) == s # <<>> /\ Head(s) = "#"

-----------------------------------------------------------------------------
(* The inputs of one call *)

(* rows of data/sp500_constituents.csv: a symbol and its 'GICS Sector' *)
Rows == { [Symbol |-> "A", Sector |-> <<"T">>],
          [Symbol |-> "B", Sector |-> <<"E">>],
          [Symbol |-> "C", Sector |-> <<"T">>] }

AllColumns == {"Symbol", "GICS Sector"}

(* what pd.read_csv(constituents_path) does: the file is missing, it cannot be
   parsed (an empty file, a malformed one), or it yields a table; a table
   always has its Symbol column here and one table lacks 'GICS Sector' (its
   rows' Sector is not read) *)
Tables ==
    [columns : {AllColumns}, rows : BoundedSeq(Rows, MaxPool)]
        \cup {[columns |-> {"Symbol"}, rows |-> <<[Symbol |-> "A", Sector |-> <<>>]>>]}

CsvOutcomes ==
    [status : {"ok"}, table : Tables]
        \cup [status : {"FileNotFoundError", "ParserError"},
              table : {[columns |-> {}, rows |-> <<>>]}]

(* lines of config/sectors.txt, as iterating the file yields them *)
Lines == { <<"\n">>,
           <<"#", "T", "\n">>,
           <<" ", "#", "T", "\n">>,
           <<" ", "T", " ", "\n">>,
           <<"E", "\n">> }

SectorFiles ==
    [exists : {TRUE}, lines : BoundedSeq(Lines, MaxLines)]
        \cup {[exists |-> FALSE, lines |-> <<>>]}

(* closes at 100 with a chosen first and last close *)
Shape(n, first, last) ==
    [k \in 1..n |-> IF k = n THEN last ELSE IF k = 1 THEN first ELSE 100]

(* the frames yf.download returns: empty; short and one below the window,
   ending below and above the level; the window itself, ending below, at and
   above the level and at 150; one more than the window with a high close that
   has left the window; and a frame that has rows and no 'Close' column *)
Frames ==
    {[has_close |-> TRUE, Close |-> <<>>]}
        \cup {[has_close |-> TRUE, Close |-> Shape(n, 100, last)] :
                n \in {ShortLen, Window - 1}, last \in {99, 101}}
        \cup {[has_close |-> TRUE, Close |-> Shape(Window, 100, last)] :
                last \in {99, 100, 101, 150}}
        \cup {[has_close |-> TRUE, Close |-> Shape(Window + 1, 400, last)] :
                last \in {100, 101}}
        \cup {[has_close |-> FALSE, Close |-> Shape(ShortLen, 100, 100)]}

(* what yf.download(ticker, ...) does: it raises or returns a frame *)
FetchOutcomes ==
    [status : {"ok"}, frame : Frames]
        \cup {[status |-> "raise", frame |-> [has_close |-> TRUE, Close |-> <<>>]]}

-----------------------------------------------------------------------------
(* Lines 21-51: the stock pool *)

(* line 34: the condition of the list comprehension *)
KeepsLineStripped(line) == Strip(line) # <<>> /\ ~StartsWithHash(Strip(line))
KeepsLine(line) == Strip(line) # <<>> /\ ~StartsWithHash(line)

RECURSIVE StrippedKept(_)
StrippedKept(lines) ==
    IF lines = <<>> THEN <<>>
    ELSE (IF KeepsLine(Head(lines)) THEN <<Strip(Head(lines))>> ELSE <<>>)
            \o StrippedKept(Tail(lines))

(* lines 31-34 *)
SelectedSectors(file) == IF file.exists THEN StrippedKept(file.lines) ELSE <<>>

(* Series.isin *)
IsIn(v, list) == \E k \in 1..Len(list) : list[k] = v

(* df['Symbol'].tolist() *)
SymbolList(rows) == [k \in 1..Len(rows) |-> rows[k].Symbol]

(* lines 39-40 *)
FilteredPool(rows, selected) ==
    SymbolList(SelectSeq(rows, LAMBDA r : IsIn(r.Sector, selected)))

(* lines 47 and 51: return [] *)
EmptyList == <<>>

NoTable == [columns |-> {}, rows |-> <<>>]
NoFile == [exists |-> FALSE, lines |-> <<>>]
NoFrame == [has_close |-> TRUE, Close |-> <<>>]

Init ==
    /\ pc = "start"
    /\ verbose \in BOOLEAN
    /\ csv_status = "unread"
    /\ constituents_df = NoTable
    /\ sector_lines = NoFile
    /\ stock_pool = <<>>
    /\ idx = 0
    /\ stock_data = NoFrame
    /\ bullish_stocks = <<>>
    /\ exc = "none"
    /\ raised = "none"
    /\ retval = <<>>
    /\ exit_line = 0
    /\ fetch_log = <<>>
    /\ skipped = <<>>
    /\ qualified = <<>>
    /\ picked = <<>>

(* an exception leaves run_scan *)
Propagate(e) ==
    /\ pc' = "raised"
    /\ raised' = e
    /\ UNCHANGED <<retval, exit_line>>

(* a return statement *)
Return(v, line) ==
    /\ pc' = "returned"
    /\ retval' = v
    /\ exit_line' = line
    /\ UNCHANGED raised

(* lines 45-47: the warning and the early return *)
NoStocksRaises(print_fails) == Propagate("ValueError")
NoStocks(print_fails) ==
    IF print_fails THEN Propagate("ConsoleError") ELSE Return(EmptyList, 47)

(* Lines 26-34 and 49-51.  `fails` is the index of the console.print call of
   this step that raises (0: none does). *)
ReadFiles(fails) ==
    /\ pc = "start"
    /\ \E csv \in CsvOutcomes, file \in SectorFiles :
        /\ csv_status' = csv.status
        /\ CASE csv.status = "FileNotFoundError" ->
                   /\ IF fails = 1 THEN Propagate("ConsoleError")
                                   ELSE Return(EmptyList, 51)
                   /\ UNCHANGED <<constituents_df, sector_lines>>
             [] csv.status = "ParserError" ->
                   /\ Propagate("ParserError")
                   /\ UNCHANGED <<constituents_df, sector_lines>>
             [] OTHER ->
                   /\ constituents_df' = csv.table
                   /\ sector_lines' = file
                   /\ pc' = "loaded"
                   /\ UNCHANGED <<raised, retval, exit_line>>
    /\ UNCHANGED <<verbose, stock_pool, idx, stock_data, bullish_stocks, exc, fetch_log,
                   skipped, qualified, picked>>

(* Lines 36-47 *)
SelectPool(fails) ==
    /\ pc = "loaded"
    /\ LET selected == SelectedSectors(sector_lines)
           rows == constituents_df.rows
           pool == IF selected # <<>> THEN FilteredPool(rows, selected)
                                      ELSE SymbolList(rows)
       IN  CASE selected # <<>> /\ fails = 1 ->
                    Propagate("ConsoleError") /\ UNCHANGED stock_pool
             [] selected # <<>> /\ "GICS Sector" \notin constituents_df.columns ->
                    Propagate("KeyError") /\ UNCHANGED stock_pool
             [] OTHER ->
                    /\ stock_pool' = pool
                    /\ IF pool = <<>>
                         THEN NoStocks((selected # <<>> /\ fails = 2)
                                            \/ (selected = <<>> /\ fails = 1))
                         ELSE /\ pc' = "scan"
                              /\ UNCHANGED <<raised, retval, exit_line>>
    /\ UNCHANGED <<verbose, csv_status, constituents_df, sector_lines, idx, stock_data,
                   bullish_stocks, exc, fetch_log, skipped, qualified, picked>>

-----------------------------------------------------------------------------
(* Lines 53-90: the scan *)

NaN == [nan |-> TRUE, sum |-> 0, count |-> 0]

(* line 72: Close.rolling(window).mean().values[-1].  rolling(window=w) has
   min_periods = w: with fewer than w observations in the window the mean is
   NaN.  The mean is the fraction sum / count. *)
RollingMeanPartial(closes, window) ==
    LET n == Len(closes)
        lo == IF n < window THEN 1 ELSE n - window + 1
    IN  [nan |-> FALSE, sum |-> SumRange(closes, lo, n), count |-> n - lo + 1]
RollingMeanLast(closes, window) ==
    LET n == Len(closes)
    IN  IF n < window THEN NaN
        ELSE [nan |-> FALSE, sum |-> SumRange(closes, n - window + 1, n), count |-> window]

(* line 78: last_price > sma_200; a comparison with NaN is False *)
GreaterOrEqual(x, mean) == ~mean.nan /\ x * mean.count >= mean.sum
GreaterThan(x, mean) == ~mean.nan /\ x * mean.count > mean.sum

(* line 79: bullish_stocks.append(ticker) *)
Prepended(list, ticker) == <<ticker>> \o list
Appended(list, ticker) == Append(list, ticker)

(* line 66: stock_data.empty *)
IsEmpty(frame) == Len(frame.Close) = 0

(* what lines 66-79 decide for a returned frame *)
Qualifies(frame) ==
    /\ ~IsEmpty(frame)
    /\ frame.has_close
    /\ GreaterThan(frame.Close[Len(frame.Close)], RollingMeanLast(frame.Close, Window))

(* an exception inside the try of lines 59-81 reaches the handler of line 83 *)
Caught(e) ==
    /\ pc' = "except"
    /\ exc' = e

(* Lines 53-56.  constituents_df and the sectors file are not read again. *)
StartScan(fails) ==
    /\ pc = "scan"
    /\ bullish_stocks' = <<>>
    /\ constituents_df' = NoTable
    /\ sector_lines' = NoFile
    /\ IF verbose /\ fails = 1
         THEN Propagate("ConsoleError")
         ELSE pc' = "loop" /\ UNCHANGED <<raised, retval, exit_line>>
    /\ UNCHANGED <<verbose, csv_status, stock_pool, idx, stock_data, exc, fetch_log,
                   skipped, qualified, picked>>

(* Lines 58-64: the next ticker, the progress line and the download.  The frame
   of the ticker before is not read again: stock_data holds this ticker's
   frame or none. *)
BeginTicker(fails) ==
    /\ pc = "loop"
    /\ idx < Len(stock_pool)
    /\ idx' = idx + 1
    /\ IF verbose /\ fails = 1
         THEN /\ Caught("ConsoleError")
              /\ stock_data' = NoFrame
              /\ UNCHANGED <<fetch_log, skipped, qualified>>
         ELSE \E out \in FetchOutcomes :
                /\ fetch_log' = Append(fetch_log, idx + 1)
                /\ skipped' = IF out.status = "raise" \/ IsEmpty(out.frame)
                                 THEN Append(skipped, idx + 1)
                                 ELSE skipped
                /\ qualified' = IF out.status = "ok" /\ Qualifies(out.frame)
                                   THEN Append(qualified, stock_pool[idx + 1])
                                   ELSE qualified
                /\ IF out.status = "raise"
                     THEN Caught("FetchError") /\ stock_data' = NoFrame
                     ELSE /\ stock_data' = out.frame
                          /\ pc' = "fetched"
                          /\ UNCHANGED exc
    /\ UNCHANGED <<verbose, csv_status, constituents_df, sector_lines, stock_pool,
                   bullish_stocks, raised, retval, exit_line, picked>>

(* Lines 66-81: skip an empty frame, else screen the ticker *)
Screen(fails) ==
    /\ pc = "fetched"
    /\ LET closes == stock_data.Close
           sma_200 == RollingMeanLast(closes, Window)
           last_price == closes[Len(closes)]
       IN  CASE IsEmpty(stock_data) ->
                    /\ IF verbose /\ fails = 1
                         THEN Caught("ConsoleError")
                         ELSE pc' = "loop" /\ UNCHANGED exc
                    /\ UNCHANGED <<bullish_stocks, picked>>
             [] ~IsEmpty(stock_data) /\ ~stock_data.has_close ->
                    /\ Caught("KeyError")
                    /\ UNCHANGED <<bullish_stocks, picked>>
             [] OTHER ->
                    IF GreaterThan(last_price, sma_200)
                      THEN /\ bullish_stocks' = Appended(bullish_stocks, stock_pool[idx])
                           /\ picked' = Append(picked, idx)
                           /\ IF verbose /\ fails = 1
                                THEN Caught("ConsoleError")
                                ELSE pc' = "loop" /\ UNCHANGED exc
                      ELSE /\ pc' = "loop"
                           /\ UNCHANGED <<bullish_stocks, picked, exc>>
    /\ UNCHANGED <<verbose, csv_status, constituents_df, sector_lines, stock_pool, idx,
                   stock_data, raised, retval, exit_line, fetch_log, skipped, qualified>>

(* Lines 83-85: the handler; the loop goes on with the next ticker *)
HandleErrorReraises(fails) ==
    /\ pc = "except"
    /\ exc' = "none"
    /\ Propagate(exc)
    /\ UNCHANGED <<verbose, csv_status, constituents_df, sector_lines, stock_pool, idx,
                   stock_data, bullish_stocks, fetch_log, skipped, qualified, picked>>
HandleErrorRetries(fails) ==
    /\ pc = "except"
    /\ exc' = "none"
    /\ idx' = idx - 1
    /\ IF verbose /\ fails = 1
         THEN Propagate("ConsoleError")
         ELSE pc' = "loop" /\ UNCHANGED <<raised, retval, exit_line>>
    /\ UNCHANGED <<verbose, csv_status, constituents_df, sector_lines, stock_pool,
                   stock_data, bullish_stocks, fetch_log, skipped, qualified, picked>>
HandleError(fails) ==
    /\ pc = "except"
    /\ exc' = "none"
    /\ IF verbose /\ fails = 1
         THEN Propagate("ConsoleError")
         ELSE pc' = "loop" /\ UNCHANGED <<raised, retval, exit_line>>
    /\ UNCHANGED <<verbose, csv_status, constituents_df, sector_lines, stock_pool, idx,
                   stock_data, bullish_stocks, fetch_log, skipped, qualified, picked>>

(* Lines 87-90 *)
Finish(fails) ==
    /\ pc = "loop"
    /\ idx = Len(stock_pool)
    /\ IF verbose /\ fails = 1
         THEN Propagate("ConsoleError")
         ELSE Return(bullish_stocks, 90)
    /\ stock_data' = NoFrame
    /\ UNCHANGED <<verbose, csv_status, constituents_df, sector_lines, stock_pool, idx,
                   bullish_stocks, exc, fetch_log, skipped, qualified, picked>>

Step(fails) ==
    \/ ReadFiles(fails)
    \/ SelectPool(fails)
    \/ StartScan(fails)
    \/ BeginTicker(fails)
    \/ Screen(fails)
    \/ HandleError(fails)
    \/ Finish(fails)

(* console.print returns *)
Next == \E fails \in {0} : Step(fails)

(* console.print may raise *)
NextFaultyConsole == \E fails \in 0..2 : Step(fails)

Spec == Init /\ [][Next]_vars

SpecFaultyConsole == Init /\ [][NextFaultyConsole]_vars

-----------------------------------------------------------------------------
(* Properties *)

Positions(n) == [k \in 1..n |-> k]

Range(s) == {s[k] : k \in 1..Len(s)}

Terminated == pc \in {"returned", "raised"}

(* the frame in stock_data is the one the download for position idx returned,
   and lines 66-81 have run on it *)
Screened ==
    /\ pc \in {"loop", "except"}
    /\ idx >= 1
    /\ fetch_log # <<>>
    /\ fetch_log[Len(fetch_log)] = idx
    /\ idx \notin Range(skipped)
    /\ stock_data.has_close

RECURSIVE IsSubsequence(_, _)
IsSubsequence(sub, seq) ==
    IF sub = <<>> THEN TRUE
    ELSE IF seq = <<>> THEN FALSE
    ELSE IF Head(sub) = Head(seq) THEN IsSubsequence(Tail(sub), Tail(seq))
    ELSE IsSubsequence(sub, Tail(seq))

(* C1: a ticker whose download raised or returned an empty frame is not in the
   result, no exception leaves run_scan, and the scan goes on: after such a
   download the call ends only by returning from line 90, and by then the
   download has been invoked for every position and the result holds the
   tickers picked at the other positions. *)
C1_FailedFetchIsSkipped ==
    skipped # <<>> =>
        /\ \A p \in Range(skipped) : p \notin Range(picked)
        /\ raised = "none"
        /\ pc \in {"except", "fetched", "loop", "returned"}
        /\ pc = "loop" => idx <= Len(stock_pool)
        /\ Terminated =>
                /\ pc = "returned" /\ exit_line = 90
                /\ fetch_log = Positions(Len(stock_pool))
                /\ retval = [k \in 1..Len(picked) |-> stock_pool[picked[k]]]

C1_Witness ==
    /\ pc = "returned"
    /\ exit_line = 90
    /\ Len(stock_pool) = 3
    /\ skipped = <<1, 2>>
    /\ retval = <<stock_pool[3]>>

(* C2: a ticker whose frame has at least 200 closes is appended to the result
   exactly when its last close is strictly greater than the mean of its most
   recent 200 closes (last * 200 > their sum). *)
C2_AboveTrailingMeanIff ==
    (Screened /\ Len(stock_data.Close) >= 200) =>
        LET closes == stock_data.Close
            n == Len(closes)
            above == closes[n] * 200 > SumRange(closes, n - 199, n)
        IN  /\ above <=> (picked # <<>> /\ picked[Len(picked)] = idx)
            /\ above => bullish_stocks[Len(bullish_stocks)] = stock_pool[idx]

(* 199 closes at 100 and a 200th at 150: included *)
C2_Witness ==
    /\ Screened
    /\ Len(stock_data.Close) = 200
    /\ \A k \in 1..199 : stock_data.Close[k] = 100
    /\ stock_data.Close[200] = 150
    /\ picked # <<>> /\ picked[Len(picked)] = idx
    /\ bullish_stocks[Len(bullish_stocks)] = stock_pool[idx]

(* 200 closes at 100: the last close equals the mean, excluded *)
C2_WitnessEqual ==
    /\ Screened
    /\ \A k \in 1..200 : stock_data.Close[k] = 100
    /\ Len(stock_data.Close) = 200
    /\ idx \notin Range(picked)

(* C3 as stated: with fewer than 200 closes the ticker is appended exactly when
   its last close is strictly greater than the mean of all its closes. *)
C3_PartialWindowAveraged ==
    (Screened /\ Len(stock_data.Close) > 0 /\ Len(stock_data.Close) < 200) =>
        LET closes == stock_data.Close
            n == Len(closes)
        IN  (closes[n] * n > SumRange(closes, 1, n)) <=> idx \in Range(picked)

(* C3 amended: with fewer than 200 closes the rolling mean is NaN and the
   ticker is never appended. *)
C3_ShortSeriesNeverIncluded ==
    (Screened /\ Len(stock_data.Close) > 0 /\ Len(stock_data.Close) < 200) =>
        /\ RollingMeanLast(stock_data.Close, Window).nan
        /\ idx \notin Range(picked)

(* a short frame whose last close is above the mean of its closes, excluded *)
C3_Witness ==
    /\ Screened
    /\ pc = "loop"
    /\ Len(stock_data.Close) = ShortLen
    /\ LET closes == stock_data.Close
       IN  closes[Len(closes)] * Len(closes) > SumRange(closes, 1, Len(closes))
    /\ idx \notin Range(picked)

(* C4: the result is a subsequence of the pool: its entries are the tickers at
   strictly increasing positions already visited, one entry for each. *)
C4_ResultIsSubsequence ==
    /\ IsSubsequence(bullish_stocks, stock_pool)
    /\ Len(bullish_stocks) = Len(picked)
    /\ \A k \in 1..Len(picked) :
            /\ picked[k] \in 1..idx
            /\ bullish_stocks[k] = stock_pool[picked[k]]
            /\ k > 1 => picked[k - 1] < picked[k]
    /\ pc = "returned" => IsSubsequence(retval, stock_pool)
    /\ (pc = "returned" /\ exit_line = 90) => retval = bullish_stocks

C4_Witness ==
    /\ pc = "returned"
    /\ stock_pool = <<"A", "B", "C">>
    /\ fetch_log = <<1, 2, 3>>
    /\ retval = <<"B">>
(* the selected sectors, as C10 describes them: the stripped lines that are
   neither blank nor start with '#' *)
SelectedLines ==
    IF sector_lines.exists
      THEN {Strip(sector_lines.lines[k]) : k \in
                {j \in 1..Len(sector_lines.lines) :
                    /\ \E c \in Range(sector_lines.lines[j]) : c \notin Whitespace
                    /\ sector_lines.lines[j][1] # "#"}}
      ELSE {}

(* the symbols, in file order, of the rows that satisfy keep *)
SymbolsWhere(rows, keep(_)) ==
    LET kept == SelectSeq(rows, keep)
    IN  [k \in 1..Len(kept) |-> kept[k].Symbol]

PoolChosen == pc = "scan" \/ (pc = "returned" /\ exit_line = 47)

(* C5: when the pool that was built is empty, the call returns an empty list,
   raises nothing and never invokes the download. *)
C5_EmptyPoolReturnsEmpty ==
    (pc \notin {"start", "loaded"} /\ stock_pool = <<>>
        /\ raised \notin {"ParserError", "KeyError"}) =>
            /\ pc = "returned"
            /\ retval = <<>>
            /\ fetch_log = <<>>

(* the sector filter matched no constituent *)
C5_Witness ==
    /\ pc = "returned"
    /\ exit_line = 47
    /\ constituents_df.rows # <<>>
    /\ stock_pool = <<>>
    /\ retval = <<>>
    /\ fetch_log = <<>>

(* C6 as stated: verbose and the console do not influence the scan.  A call
   with verbose = False and a non-empty pool invokes the download for every
   position in order and returns the tickers whose frames qualify; a call with
   verbose = True does the same, whatever console.print does. *)
C6_VerboseIsObservational ==
    (verbose /\ Terminated /\ stock_pool # <<>>) =>
        /\ pc = "returned"
        /\ fetch_log = Positions(Len(stock_pool))
        /\ retval = qualified

(* C7 as stated: every call ends by returning a list; run_scan raises no
   ConfigurationError, so no call ends by an exception, whatever reading the
   files did. *)
C7_AlwaysReturnsList ==
    /\ pc # "raised" /\ raised = "none"
    /\ csv_status \notin {"unread", "ok"} => pc = "returned"

(* steps left at most: three for each ticker not begun, and the rest of the
   current stage *)
StepsLeft ==
    3 * ((IF pc \in {"start", "loaded"} THEN MaxPool ELSE Len(stock_pool)) - idx)
        + CASE pc = "start" -> 6
            [] pc = "loaded" -> 5
            [] pc = "scan" -> 4
            [] pc = "fetched" -> 3
            [] pc = "except" -> 2
            [] pc = "loop" -> 1
            [] OTHER -> 0

(* C9: the download is invoked once for each position, in order, each only when
   the ticker before is decided (the loop is at its head); none is invoked
   again; and the call ends, after the last ticker when the pool is not empty:
   the loop never passes the end of the pool and every step brings the end
   nearer. *)
C9_OneFetchPerPositionInOrder ==
    /\ [](/\ Len(fetch_log) <= Len(stock_pool)
          /\ fetch_log = Positions(Len(fetch_log))
          /\ pc \in {"loop", "fetched", "except"} => Len(fetch_log) = idx
          /\ (pc = "returned" /\ stock_pool # <<>>) =>
                /\ exit_line = 90
                /\ idx = Len(stock_pool)
                /\ fetch_log = Positions(Len(stock_pool)))
    /\ [][fetch_log' # fetch_log =>
            /\ pc = "loop"
            /\ fetch_log' = Append(fetch_log, idx + 1)
            /\ pc' \in {"fetched", "except"}]_vars
    /\ [](idx <= Len(stock_pool) /\ StepsLeft >= 0)
    /\ [][StepsLeft' < StepsLeft]_vars

C9_Witness ==
    /\ pc = "returned"
    /\ exit_line = 90
    /\ Len(stock_pool) = 3
    /\ fetch_log = <<1, 2, 3>>
    /\ skipped = <<2>>
    /\ picked = <<1, 3>>

(* C10: with no sectors file, or none of its lines selected, the pool is every
   symbol in file order; otherwise it is the symbols, in file order, of the
   rows whose sector is one of the selected lines, stripped; and with the
   constituents file missing the call returns an empty list and invokes no
   download. *)
C10_PoolFromFiles ==
    /\ PoolChosen =>
        stock_pool =
            IF SelectedLines = {}
              THEN SymbolsWhere(constituents_df.rows, LAMBDA r : TRUE)
              ELSE SymbolsWhere(constituents_df.rows, LAMBDA r : r.Sector \in SelectedLines)
    /\ csv_status = "FileNotFoundError" =>
            /\ pc = "returned"
            /\ exit_line = 51
            /\ retval = <<>>
            /\ fetch_log = <<>>

(* a comment line, a line with blanks around the sector: the T rows are kept *)
C10_Witness ==
    /\ pc = "scan"
    /\ sector_lines.lines = << <<"#", "T", "\n">>, <<" ", "T", " ", "\n">> >>
    /\ constituents_df.rows = << [Symbol |-> "A", Sector |-> <<"T">>],
                                 [Symbol |-> "B", Sector |-> <<"E">>],
                                 [Symbol |-> "C", Sector |-> <<"T">>] >>
    /\ stock_pool = <<"A", "C">>

====
